---- MODULE Spec2Model ----
(***************************************************************************)
(* Model of zCurve (Morton / Z-order codes): the bit-plane codec           *)
(* interlace / deinterlace, the range scanners next_morton (BIGMIN) and    *)
(* prev_morton (LITMAX), and the membership test in_range.                 *)
(*                                                                         *)
(* Integers are Python's arbitrary-precision integers.  The gmpy2 xmpz     *)
(* bit indexing and slicing the source relies on is modelled bit by bit:   *)
(* reading a slice gathers the bits at start, start+step, ... below the    *)
(* bit length of the number; assigning a slice writes exactly as many bits *)
(* of the value as the slice has positions.                                *)
(***************************************************************************)
EXTENDS Integers, Sequences, FiniteSets

\* ------------------------------------------------------------------ bounds
MaxDims == 3
MaxCode == 15
MaxLen == 3
MaxCoord == 3
MaxBits == 2

\* Python's None for an omitted optional argument
None == -1

Min2(a, b) == IF a < b THEN a ELSE b
Max2(a, b) == IF a < b THEN b ELSE a

\* ------------------------------------------------------------------ integers and xmpz
RECURSIVE bit_length(_)
\* int.bit_length()
bit_length(n) == IF n = 0 THEN 0 ELSE 1 + bit_length(n \div 2)

\* mpz_sizeinbase(z, 2): the length xmpz uses for slicing; 1 for zero
sizeinbase2(n) == IF n = 0 THEN 1 ELSE bit_length(n)

\* x[i] for an xmpz: the bit at position i
GetBit(x, i) == (x \div (2 ^ i)) % 2

\* x[i] = 1
SetBit(x, i) == IF GetBit(x, i) = 1 THEN x ELSE x + 2 ^ i

\* x[i] = 0
ClrBit(x, i) == IF GetBit(x, i) = 1 THEN x - 2 ^ i ELSE x

\* number of positions of the slice start:stop:step within a sequence of
\* length seq_len (start, stop >= 0, step > 0), as PySlice_GetIndicesEx
SliceLength(start, stop, step, seq_len) ==
    LET s == Min2(start, seq_len)
        e == Min2(stop, seq_len)
    IN  IF e > s THEN ((e - s - 1) \div step) + 1 ELSE 0

RECURSIVE WriteBits_Unbounded(_, _, _, _, _, _)
\* variant: the loop runs on while the value has bits left, so a value wider
\* than the slice spills past it
WriteBits_Unbounded(x, cur, step, k, n, v) ==
    IF k >= n /\ v \div (2 ^ k) = 0 THEN x
    ELSE WriteBits_Unbounded(IF GetBit(v, k) = 1 THEN SetBit(x, cur) ELSE ClrBit(x, cur),
                             cur + step, step, k + 1, n, v)

RECURSIVE WriteBits(_, _, _, _, _, _)
\* the loop of xmpz slice assignment: position cur receives bit k of v
WriteBits(x, cur, step, k, n, v) ==
    IF k >= n THEN x
    ELSE WriteBits(IF GetBit(v, k) = 1 THEN SetBit(x, cur) ELSE ClrBit(x, cur),
                   cur + step, step, k + 1, n, v)

\* variant: the target is not padded to stop bits, so the slice is clipped to
\* the bits the target already has
SetSlice_Unpadded(x, start, stop, step, v) ==
    LET seq_len == sizeinbase2(x)
        n == SliceLength(start, stop, step, seq_len)
    IN  WriteBits(x, Min2(start, seq_len), step, 0, n, v)

\* x[start:stop:step] = v for an xmpz x and a value v >= 0: the target is
\* padded to stop bits, and only as many bits of v as the slice has
\* positions are written
SetSlice(x, start, stop, step, v) ==
    LET seq_len == Max2(sizeinbase2(x), stop)
        n == SliceLength(start, stop, step, seq_len)
    IN  WriteBits(x, Min2(start, seq_len), step, 0, n, v)

RECURSIVE ReadBits(_, _, _, _, _)
\* the loop of xmpz slice reading: bit k of the result is bit cur of x
ReadBits(x, cur, step, k, n) ==
    IF k >= n THEN 0
    ELSE GetBit(x, cur) * (2 ^ k) + ReadBits(x, cur + step, step, k + 1, n)

\* int(x[start:stop:step]) for an xmpz x: the slice is clipped to the bit
\* length of x
GetSlice(x, start, stop, step) ==
    LET seq_len == sizeinbase2(x)
        n == SliceLength(start, stop, step, seq_len)
    IN  ReadBits(x, Min2(start, seq_len), step, 0, n)

\* ------------------------------------------------------------------ bit-plane codec
\* max(1, *data_point), for a non-empty data_point
MaxOf(seq) ==
    LET S == {1} \cup {seq[k] : k \in 1..Len(seq)}
    IN  CHOOSE m \in S : \A n \in S : n <= m

\* interlace, lines 19-22: the resolved dims, bits_per_dim and total_bits,
\* or the TypeError of max(1) when no coordinate is given and bits_per_dim
\* is omitted
interlace_setup(dp, d, b) ==
    LET dd == IF d = None THEN Len(dp) ELSE d
    IN  IF b = None /\ Len(dp) = 0
        THEN [outcome |-> "TypeError", dims |-> dd, bits_per_dim |-> 0, total_bits |-> 0]
        ELSE LET bb == IF b = None THEN bit_length(MaxOf(dp)) ELSE b
             IN  [outcome |-> "none", dims |-> dd, bits_per_dim |-> bb,
                  total_bits |-> dd * bb]

\* variant: the slices stop one bit short of the total width
deinterlace_ShortStop(cp, d, tb) ==
    LET bl    == bit_length(cp)
        total == IF tb = None THEN bl + (d - (bl % d)) ELSE tb
    IN  [k \in 1..d |-> GetSlice(cp, k - 1, total - 1, d)]

\* deinterlace(code_point, dims, total_bits), dims >= 1
deinterlace(cp, d, tb) ==
    LET bl    == bit_length(cp)
        total == IF tb = None THEN bl + (d - (bl % d)) ELSE tb
    IN  [k \in 1..d |-> GetSlice(cp, k - 1, total, d)]

\* ------------------------------------------------------------------ range scanners
\* total_bits of next_morton and prev_morton when not supplied
scan_total_bits(cp, rmin, rmax, d) ==
    LET tb == bit_length(Max2(Max2(1, cp), Max2(rmin, rmax)))
    IN  tb + (d - (tb % d))

\* LOAD("1000...", x): bit i set, the lower bits of bit i's plane cleared
LOAD_1000(x, i, d) == SetBit(SetSlice(x, i % d, i, d, 0), i)

\* variant: bit i is cleared and the lower bits of its plane are left as
\* they are
LOAD_0111_NoFill(x, i, d) == ClrBit(x, i)

\* LOAD("0111...", x): bit i cleared, the lower bits of bit i's plane set
LOAD_0111(x, i, d) == ClrBit(SetSlice(x, i % d, i, d, 2 ^ (i + 1) - 1), i)

\* the local state of a scan when the loop is entered
scan_frame(cp, rmin, rmax, d, tb) ==
    LET total == IF tb = None THEN scan_total_bits(cp, rmin, rmax, d) ELSE tb
    IN  [CODE |-> cp, MIN |-> rmin, MAX |-> rmax, BIGMIN |-> 0, LITMAX |-> 0,
         i |-> total - 1, total_bits |-> total, dims |-> d,
         outcome |-> "none", value |-> 0]

\* the bits examined at the current position: <<CODE_BIT, MIN_BIT, MAX_BIT>>
Triple(f) == <<GetBit(f.CODE, f.i), GetBit(f.MIN, f.i), GetBit(f.MAX, f.i)>>

Return(f, v) == [f EXCEPT !.outcome = "return", !.value = v]
Raise(f, e) == [f EXCEPT !.outcome = e]
Continue(f) == [f EXCEPT !.i = f.i - 1]

\* one iteration of the loop of next_morton (BIGMIN decision table), or the
\* return after the loop
next_morton_iter(f) ==
    IF f.i < 0 THEN Return(f, f.BIGMIN)
    ELSE LET t == Triple(f) IN
         IF t = <<0, 0, 0>> THEN Continue(f)
         ELSE IF t = <<0, 0, 1>> THEN
              Continue([f EXCEPT
                  !.BIGMIN = LOAD_1000(SetSlice(f.BIGMIN, 0, f.total_bits, 1,
                                                GetSlice(f.MIN, 0, f.total_bits, 1)),
                                       f.i, f.dims),
                  !.MAX = LOAD_0111(f.MAX, f.i, f.dims)])
         ELSE IF t = <<0, 1, 1>> THEN Return(f, f.MIN)
         ELSE IF t = <<1, 0, 0>> THEN Return(f, f.BIGMIN)
         ELSE IF t = <<1, 0, 1>> THEN
              Continue([f EXCEPT !.MIN = LOAD_1000(f.MIN, f.i, f.dims)])
         ELSE IF t = <<1, 1, 1>> THEN Continue(f)
         ELSE Raise(f, "ValueError")

\* one iteration of the loop of prev_morton (LITMAX decision table), or the
\* return after the loop
prev_morton_iter(f) ==
    IF f.i < 0 THEN Return(f, f.LITMAX)
    ELSE LET t == Triple(f) IN
         IF t = <<0, 0, 0>> THEN Continue(f)
         ELSE IF t = <<0, 0, 1>> THEN
              Continue([f EXCEPT !.MAX = LOAD_0111(f.MAX, f.i, f.dims)])
         ELSE IF t = <<0, 1, 1>> THEN Return(f, f.LITMAX)
         ELSE IF t = <<1, 0, 0>> THEN Return(f, f.MAX)
         ELSE IF t = <<1, 0, 1>> THEN
              Continue([f EXCEPT
                  !.LITMAX = LOAD_0111(SetSlice(f.LITMAX, 0, f.total_bits, 1,
                                                GetSlice(f.MAX, 0, f.total_bits, 1)),
                                       f.i, f.dims),
                  !.MIN = LOAD_1000(f.MIN, f.i, f.dims)])
         ELSE IF t = <<1, 1, 1>> THEN Continue(f)
         ELSE Raise(f, "ValueError")

RECURSIVE RunNext(_)
RunNext(f) == IF f.outcome # "none" THEN f ELSE RunNext(next_morton_iter(f))

RECURSIVE RunPrev(_)
RunPrev(f) == IF f.outcome # "none" THEN f ELSE RunPrev(prev_morton_iter(f))

\* next_morton(code_point, rmin_code, rmax_code, dims) as one call
next_morton(cp, rmin, rmax, d) == RunNext(scan_frame(cp, rmin, rmax, d, None))

\* prev_morton(code_point, rmin_code, rmax_code, dims, total_bits) as one call
prev_morton(cp, rmin, rmax, d, tb) == RunPrev(scan_frame(cp, rmin, rmax, d, tb))

\* zCurve.in_range: the two fast paths, and otherwise the call of
\* next_morton with five positional arguments, which next_morton's
\* four-parameter signature rejects with TypeError before anything runs
in_range(cp, rmin, rmax, d, tb) ==
    IF cp < rmin \/ rmax < cp THEN [outcome |-> "return", value |-> FALSE]
    ELSE IF cp = rmin \/ cp = rmax THEN [outcome |-> "return", value |-> TRUE]
    ELSE [outcome |-> "TypeError", value |-> FALSE]

\* pyMorton.in_range: the same fast paths, then prev_morton(next_morton(..))
\* compared with code_point; an exception of either call propagates.
\* pyMorton's scanners differ from zCurve's only in BIGMIN = MIN.copy() and
\* LITMAX = MAX.copy(), which give the same value as the slice copies since
\* MIN and MAX stay below 2^total_bits.
pyMorton_in_range(cp, rmin, rmax, d) ==
    IF cp < rmin \/ rmax < cp THEN [outcome |-> "return", value |-> FALSE]
    ELSE IF cp = rmin \/ cp = rmax THEN [outcome |-> "return", value |-> TRUE]
    ELSE LET n == next_morton(cp, rmin, rmax, d) IN
         IF n.outcome # "return" THEN [outcome |-> n.outcome, value |-> FALSE]
         ELSE LET p == prev_morton(n.value, rmin, rmax, d, None) IN
              IF p.outcome # "return" THEN [outcome |-> p.outcome, value |-> FALSE]
              ELSE [outcome |-> "return", value |-> (cp = p.value)]

\* ------------------------------------------------------------------ state
VARIABLES
    op,          \* the function called
    args,        \* its arguments, as passed
    pc,          \* "start", "loop" / "scan", "done", "decoded"
    dims,        \* interlace: the resolved dims
    bits_per_dim,\* interlace: the resolved bits_per_dim
    total_bits,  \* interlace: dims * bits_per_dim
    c,           \* interlace: the xmpz being filled
    i,           \* interlace: index of the next coordinate, from 0
    writes,      \* interlace: slice assignments performed so far
    frame,       \* next_morton / prev_morton: CODE, MIN, MAX, BIGMIN, LITMAX, i
    outcome,     \* "none" while running, "return", or the exception raised
    result,      \* the value returned
    decoded      \* the list deinterlace returned for result

vars == <<op, args, pc, dims, bits_per_dim, total_bits, c, i, writes, frame,
          outcome, result, decoded>>

NoFrame == scan_frame(0, 0, 0, 1, 0)

\* ------------------------------------------------------------------ codec calls
DataPoints == UNION {[1..n -> 0..MaxCoord] : n \in 0..MaxLen}

InitCodec ==
    /\ op = "interlace"
    /\ args \in [data_point : DataPoints,
                 dims : {None} \cup (0..MaxLen),
                 bits_per_dim : {None} \cup (1..MaxBits)]
    /\ pc = "start"
    /\ dims = 0 /\ bits_per_dim = 0 /\ total_bits = 0
    /\ c = 0 /\ i = 0 /\ writes = 0
    /\ frame = NoFrame
    /\ outcome = "none" /\ result = 0 /\ decoded = <<>>

\* lines 19-22, when max(1, *data_point) can be evaluated
interlace_enter ==
    /\ pc = "start" /\ op = "interlace"
    /\ LET s == interlace_setup(args.data_point, args.dims, args.bits_per_dim) IN
       /\ s.outcome = "none"
       /\ dims' = s.dims /\ bits_per_dim' = s.bits_per_dim
       /\ total_bits' = s.total_bits
    /\ c' = 0 /\ i' = 0
    /\ pc' = "loop"
    /\ UNCHANGED <<op, args, writes, frame, outcome, result, decoded>>

\* line 20 with no coordinate and no bits_per_dim: max(1) raises TypeError
interlace_enter_TypeError ==
    /\ pc = "start" /\ op = "interlace"
    /\ interlace_setup(args.data_point, args.dims, args.bits_per_dim).outcome = "TypeError"
    /\ pc' = "done" /\ outcome' = "TypeError"
    /\ UNCHANGED <<op, args, dims, bits_per_dim, total_bits, c, i, writes, frame,
                   result, decoded>>

\* line 25: c[i:total_bits:dims] = v
interlace_write ==
    /\ pc = "loop" /\ i < Len(args.data_point)
    /\ dims # 0
    /\ c' = SetSlice(c, i, total_bits, dims, args.data_point[i + 1])
    /\ i' = i + 1 /\ writes' = writes + 1
    /\ UNCHANGED <<op, args, pc, dims, bits_per_dim, total_bits, frame, outcome,
                   result, decoded>>

\* line 25 with dims = 0: a slice step of zero raises ValueError
interlace_write_ValueError ==
    /\ pc = "loop" /\ i < Len(args.data_point)
    /\ dims = 0
    /\ pc' = "done" /\ outcome' = "ValueError"
    /\ UNCHANGED <<op, args, dims, bits_per_dim, total_bits, c, i, writes, frame,
                   result, decoded>>

\* line 27: return int(c)
interlace_return ==
    /\ pc = "loop" /\ i >= Len(args.data_point)
    /\ pc' = "done" /\ outcome' = "return" /\ result' = c
    /\ UNCHANGED <<op, args, dims, bits_per_dim, total_bits, c, i, writes, frame,
                   decoded>>

\* the caller decodes the code just produced, with the same dims and the
\* same total bit width: deinterlace(result, dims, total_bits)
deinterlace_call ==
    /\ pc = "done" /\ op = "interlace" /\ outcome = "return"
    /\ dims >= 1
    /\ decoded' = deinterlace(result, dims, total_bits)
    /\ pc' = "decoded"
    /\ UNCHANGED <<op, args, dims, bits_per_dim, total_bits, c, i, writes, frame,
                   outcome, result>>

NextCodec ==
    \/ interlace_enter
    \/ interlace_enter_TypeError
    \/ interlace_write
    \/ interlace_write_ValueError
    \/ interlace_return
    \/ deinterlace_call

SpecCodec == InitCodec /\ [][NextCodec]_vars

\* ------------------------------------------------------------------ range calls
Init ==
    /\ op \in {"next_morton", "prev_morton", "in_range", "pyMorton_in_range"}
    /\ args \in [code_point : 0..MaxCode, rmin_code : 0..MaxCode,
                 rmax_code : 0..MaxCode, dims : 1..MaxDims]
    /\ pc = "start"
    /\ dims = 0 /\ bits_per_dim = 0 /\ total_bits = 0
    /\ c = 0 /\ i = 0 /\ writes = 0
    /\ frame = NoFrame
    /\ outcome = "none" /\ result = 0 /\ decoded = <<>>

codec_locals == <<dims, bits_per_dim, total_bits, c, i, writes, decoded>>

\* next_morton lines 163-166, prev_morton lines 104-108
scan_enter ==
    /\ pc = "start" /\ op \in {"next_morton", "prev_morton"}
    /\ frame' = scan_frame(args.code_point, args.rmin_code, args.rmax_code,
                           args.dims, None)
    /\ pc' = "scan"
    /\ UNCHANGED <<op, args, outcome, result, codec_locals>>

\* one pass through the loop body of the scanner o at a position whose
\* bits are t
ScanStep(o, t) ==
    /\ pc = "scan" /\ frame.i >= 0
    /\ Triple(frame) = t
    /\ frame' = IF o = "next_morton" THEN next_morton_iter(frame)
                                     ELSE prev_morton_iter(frame)
    /\ outcome' = frame'.outcome
    /\ result' = IF frame'.outcome = "return" THEN frame'.value ELSE result
    /\ pc' = IF frame'.outcome = "none" THEN "scan" ELSE "done"
    /\ UNCHANGED <<op, args, codec_locals>>

\* the return after the loop has run through every position
ScanExhausted(o) ==
    /\ pc = "scan" /\ frame.i < 0
    /\ frame' = IF o = "next_morton" THEN next_morton_iter(frame)
                                     ELSE prev_morton_iter(frame)
    /\ outcome' = frame'.outcome
    /\ result' = frame'.value
    /\ pc' = "done"
    /\ UNCHANGED <<op, args, codec_locals>>

next_000 == op = "next_morton" /\ ScanStep("next_morton", <<0, 0, 0>>)
next_001 == op = "next_morton" /\ ScanStep("next_morton", <<0, 0, 1>>)
next_011 == op = "next_morton" /\ ScanStep("next_morton", <<0, 1, 1>>)
next_100 == op = "next_morton" /\ ScanStep("next_morton", <<1, 0, 0>>)
next_101 == op = "next_morton" /\ ScanStep("next_morton", <<1, 0, 1>>)
next_111 == op = "next_morton" /\ ScanStep("next_morton", <<1, 1, 1>>)
next_010 == op = "next_morton" /\ ScanStep("next_morton", <<0, 1, 0>>)
next_110 == op = "next_morton" /\ ScanStep("next_morton", <<1, 1, 0>>)
next_exhausted == op = "next_morton" /\ ScanExhausted("next_morton")

prev_000 == op = "prev_morton" /\ ScanStep("prev_morton", <<0, 0, 0>>)
prev_001 == op = "prev_morton" /\ ScanStep("prev_morton", <<0, 0, 1>>)
prev_011 == op = "prev_morton" /\ ScanStep("prev_morton", <<0, 1, 1>>)
prev_100 == op = "prev_morton" /\ ScanStep("prev_morton", <<1, 0, 0>>)
prev_101 == op = "prev_morton" /\ ScanStep("prev_morton", <<1, 0, 1>>)
prev_111 == op = "prev_morton" /\ ScanStep("prev_morton", <<1, 1, 1>>)
prev_010 == op = "prev_morton" /\ ScanStep("prev_morton", <<0, 1, 0>>)
prev_110 == op = "prev_morton" /\ ScanStep("prev_morton", <<1, 1, 0>>)
prev_exhausted == op = "prev_morton" /\ ScanExhausted("prev_morton")

\* a call of in_range (zCurve) or of pyMorton's in_range, start to end
InRangeCall(r) ==
    /\ pc = "start"
    /\ outcome' = r.outcome
    /\ result' = r.value
    /\ pc' = "done"
    /\ UNCHANGED <<op, args, frame, codec_locals>>

in_range_call ==
    /\ op = "in_range"
    /\ InRangeCall(in_range(args.code_point, args.rmin_code, args.rmax_code,
                         args.dims, None))

pyMorton_in_range_call ==
    /\ op = "pyMorton_in_range"
    /\ InRangeCall(pyMorton_in_range(args.code_point, args.rmin_code, args.rmax_code,
                                  args.dims))

Next ==
    \/ scan_enter
    \/ next_000 \/ next_001 \/ next_011 \/ next_100 \/ next_101 \/ next_111
    \/ next_010 \/ next_110 \/ next_exhausted
    \/ prev_000 \/ prev_001 \/ prev_011 \/ prev_100 \/ prev_101 \/ prev_111
    \/ prev_010 \/ prev_110 \/ prev_exhausted
    \/ in_range_call
    \/ pyMorton_in_range_call

Spec == Init /\ [][Next]_vars

\* ------------------------------------------------------------------ reference notions
RECURSIVE Gather(_, _)
\* the number whose bits are the bits 0, D, 2D, ... of x
Gather(x, D) == IF x = 0 THEN 0 ELSE (x % 2) + 2 * Gather(x \div (2 ^ D), D)

\* the coordinate of dimension k (from 0) that the code x carries
Coordinate(x, k, D) == Gather(x \div (2 ^ k), D)

\* the bounds are the codes of two corners lo <= hi of a box
ValidBox ==
    \A k \in 0..(args.dims - 1) :
        Coordinate(args.rmin_code, k, args.dims) <= Coordinate(args.rmax_code, k, args.dims)

\* the code x decodes to a point of the box [lo, hi]
InBox(x) ==
    \A k \in 0..(args.dims - 1) :
        /\ Coordinate(args.rmin_code, k, args.dims) <= Coordinate(x, k, args.dims)
        /\ Coordinate(x, k, args.dims) <= Coordinate(args.rmax_code, k, args.dims)

\* every code of the box: none exceeds the code of its upper corner
BoxCodes == {x \in 0..args.rmax_code : InBox(x)}

Least(S) == CHOOSE x \in S : \A y \in S : x <= y
Greatest(S) == CHOOSE x \in S : \A y \in S : y <= x

Finished(o) == pc = "done" /\ op = o

\* ------------------------------------------------------------------ claims
\* C1 as stated: on a box lo <= hi, when some code of the box is >=
\* code_point, next_morton returns the least such code (code_point itself
\* when it lies in the box).
C1_AsStated ==
    (Finished("next_morton") /\ ValidBox
        /\ \E x \in BoxCodes : x >= args.code_point)
    => (outcome = "return"
        /\ result = Least({x \in BoxCodes : x >= args.code_point}))

\* What next_morton computes instead: on a box lo <= hi, when some code of
\* the box is strictly greater than code_point, it returns the least code of
\* the box that is strictly greater than code_point.
NextIsLeastGreater ==
    (Finished("next_morton") /\ ValidBox
        /\ \E x \in BoxCodes : x > args.code_point)
    => (outcome = "return"
        /\ result = Least({x \in BoxCodes : x > args.code_point}))

\* C2 as stated: on a box lo <= hi, when some code of the box is <=
\* code_point, prev_morton returns the greatest such code (code_point itself
\* when it lies in the box).
C2_AsStated ==
    (Finished("prev_morton") /\ ValidBox
        /\ \E x \in BoxCodes : x <= args.code_point)
    => (outcome = "return"
        /\ result = Greatest({x \in BoxCodes : x <= args.code_point}))

\* What prev_morton computes instead: on a box lo <= hi, when some code of
\* the box is strictly less than code_point, it returns the greatest code of
\* the box that is strictly less than code_point.
PrevIsGreatestLess ==
    (Finished("prev_morton") /\ ValidBox
        /\ \E x \in BoxCodes : x < args.code_point)
    => (outcome = "return"
        /\ result = Greatest({x \in BoxCodes : x < args.code_point}))

\* C3 as stated: on a box lo <= hi, in_range returns a boolean, and it is
\* true exactly when code_point decodes to a point of the box.
C3_AsStated ==
    (Finished("in_range") /\ ValidBox)
    => (outcome = "return" /\ result = InBox(args.code_point))

\* The same statement for pyMorton's in_range, whose next_morton takes the
\* arguments it is called with.
PyMortonInRangeDecidesMembership ==
    (Finished("pyMorton_in_range") /\ ValidBox)
    => (outcome = "return" /\ result = InBox(args.code_point))

\* in_range applied to the code a scanner returned, with the same bounds
InRangeOfResult == in_range(result, args.rmin_code, args.rmax_code, args.dims, None)

\* C6 as stated: whenever rmin_code <= rmax_code, for any code_point,
\* next_morton returns a code >= code_point on which in_range is true, and
\* prev_morton returns a code <= code_point on which in_range is true.
C6_AsStated ==
    /\ (Finished("next_morton") /\ args.rmin_code <= args.rmax_code)
       => (outcome = "return" /\ result >= args.code_point
           /\ InRangeOfResult = [outcome |-> "return", value |-> TRUE])
    /\ (Finished("prev_morton") /\ args.rmin_code <= args.rmax_code)
       => (outcome = "return" /\ result <= args.code_point
           /\ InRangeOfResult = [outcome |-> "return", value |-> TRUE])

\* The statement of C6 for the code_points it can be met on: a box lo <= hi
\* with a code >= code_point (next_morton) or <= code_point (prev_morton).
\* It fails as well: in_range raises TypeError on a returned code that lies
\* strictly between the bounds.
C6_WhereACodeExists ==
    /\ (Finished("next_morton") /\ ValidBox
            /\ \E x \in BoxCodes : x >= args.code_point)
       => (outcome = "return" /\ result >= args.code_point
           /\ InRangeOfResult = [outcome |-> "return", value |-> TRUE])
    /\ (Finished("prev_morton") /\ ValidBox
            /\ \E x \in BoxCodes : x <= args.code_point)
       => (outcome = "return" /\ result <= args.code_point
           /\ InRangeOfResult = [outcome |-> "return", value |-> TRUE])

\* C7: every call of next_morton or prev_morton with rmin_code > rmax_code
\* ends with ValueError and returns no code.
C7_AsStated ==
    (pc = "done" /\ op \in {"next_morton", "prev_morton"}
        /\ args.rmin_code > args.rmax_code)
    => outcome = "ValueError"

\* the scan is at a position where MIN has bit 1 and MAX has bit 0
ObservesMinOverMax ==
    /\ pc = "scan" /\ frame.i >= 0
    /\ GetBit(frame.MIN, frame.i) = 1 /\ GetBit(frame.MAX, frame.i) = 0

\* C9 as stated: with rmin_code <= rmax_code as integers, no step of a scan
\* sees MIN bit 1 with MAX bit 0, and ValueError is never raised.
C9_AsStated ==
    (op \in {"next_morton", "prev_morton"} /\ args.rmin_code <= args.rmax_code)
    => (~ObservesMinOverMax /\ outcome # "ValueError")

\* C9 amended: when the bounds are the codes of the corners lo <= hi of a
\* box (componentwise), no step of a scan sees MIN bit 1 with MAX bit 0,
\* and ValueError is never raised.
C9_NoMinOverMaxOnBox ==
    (op \in {"next_morton", "prev_morton"} /\ ValidBox)
    => (~ObservesMinOverMax /\ outcome # "ValueError")

\* ------------------------------------------------------------------ codec claims
RECURSIVE Spread(_, _, _)
\* the number that has bit j of x at position j * D, for j < b
Spread(x, D, b) ==
    IF b = 0 THEN 0 ELSE (x % 2) + (2 ^ D) * Spread(x \div 2, D, b - 1)

RECURSIVE PlaneCodeFrom(_, _, _, _)
PlaneCodeFrom(v, k, D, b) ==
    IF k > Len(v) THEN 0
    ELSE (2 ^ (k - 1)) * Spread(v[k], D, b) + PlaneCodeFrom(v, k + 1, D, b)

\* the code whose bit i + j*D is bit j of coordinate i, for j < b
PlaneCode(v, D, b) == PlaneCodeFrom(v, 1, D, b)

\* interlace was called with as many coordinates as dimensions (D >= 1)
DimsMatch ==
    /\ Len(args.data_point) >= 1
    /\ args.dims \in {None, Len(args.data_point)}

\* every coordinate fits the resolved bits_per_dim
CoordinatesFit ==
    \A k \in 1..Len(args.data_point) : args.data_point[k] < 2 ^ bits_per_dim

\* C4: for D >= 1 and coordinates within [0, 2^b), decoding the code of v
\* with the same D and total width D*b gives v back.
C4_RoundTrip ==
    (pc = "decoded" /\ DimsMatch /\ CoordinatesFit)
    => decoded = args.data_point

\* C5: for D >= 1 and coordinates within [0, 2^b), bit i + k*D of the code
\* is bit k of coordinate i, and no bit at position >= D*b is set.
C5_BitPlaneLayout ==
    (Finished("interlace") /\ outcome = "return" /\ DimsMatch /\ CoordinatesFit)
    => /\ \A k \in 0..(dims - 1) : \A j \in 0..(bits_per_dim - 1) :
            GetBit(result, k + j * dims) = GetBit(args.data_point[k + 1], j)
       /\ result < 2 ^ (dims * bits_per_dim)

\* C8: interlace called with an explicit dims that differs from the number
\* of coordinates, or with dims = 0, ends with an error before any bit is
\* written and returns no code.
C8_AsStated ==
    (Finished("interlace") /\ args.dims # None
        /\ (args.dims # Len(args.data_point) \/ args.dims = 0))
    => (outcome \in {"ValueError", "TypeError"} /\ writes = 0)

\* bits_per_dim was passed and some coordinate does not fit it
Oversized ==
    /\ args.bits_per_dim # None
    /\ \E k \in 1..Len(args.data_point) :
           args.data_point[k] >= 2 ^ args.bits_per_dim

\* the coordinates reduced modulo 2^bits_per_dim
Reduced ==
    [k \in 1..Len(args.data_point) |-> args.data_point[k] % (2 ^ bits_per_dim)]

\* C10 as stated: with a pinned bits_per_dim = b and a coordinate >= 2^b
\* the call returns, and the result differs from the code of the
\* coordinates reduced modulo 2^b (the excess bits are kept).
C10_AsStated ==
    (Finished("interlace") /\ DimsMatch /\ Oversized)
    => (outcome = "return" /\ result # PlaneCode(Reduced, dims, bits_per_dim))

\* C10 amended: with a pinned bits_per_dim = b and a coordinate >= 2^b the
\* call returns, and the coordinate's bits at index >= b are dropped: the
\* result is the code of the coordinates reduced modulo 2^b, so no other
\* dimension's bit plane is altered and no bit at position >= D*b is set.
C10_ExcessBitsDropped ==
    (Finished("interlace") /\ DimsMatch /\ Oversized)
    => (outcome = "return" /\ result = PlaneCode(Reduced, dims, bits_per_dim)
        /\ result < 2 ^ (dims * bits_per_dim))

\* ------------------------------------------------------------------ witnesses
\* C9: a scan over a box is at a position after both working copies MIN
\* and MAX have been rewritten
C9_Witness ==
    /\ pc = "scan" /\ frame.i >= 0
    /\ op = "next_morton" /\ ValidBox /\ args.dims >= 2
    /\ frame.MIN # args.rmin_code /\ frame.MAX # args.rmax_code
    /\ Triple(frame) # <<0, 0, 0>>

\* C4: three distinct in-range coordinates, encoded and decoded
C4_Witness ==
    /\ pc = "decoded" /\ DimsMatch /\ CoordinatesFit
    /\ Len(args.data_point) = 3 /\ args.bits_per_dim = 2
    /\ args.data_point[1] = 1 /\ args.data_point[2] = 2 /\ args.data_point[3] = 3
    /\ decoded = args.data_point

\* C5: two in-range coordinates that use both bits, encoded
C5_Witness ==
    /\ Finished("interlace") /\ outcome = "return" /\ DimsMatch /\ CoordinatesFit
    /\ args.dims = 2 /\ args.bits_per_dim = 2
    /\ args.data_point[1] = 2 /\ args.data_point[2] = 3
    /\ result = 14

\* C10: a coordinate of two bits encoded under bits_per_dim = 1 next to
\* another coordinate
C10_Witness ==
    /\ Finished("interlace") /\ outcome = "return" /\ DimsMatch /\ Oversized
    /\ args.bits_per_dim = 1 /\ Len(args.data_point) = 2
    /\ args.data_point[1] = 3 /\ args.data_point[2] = 0
    /\ result = 1

====
